---- MODULE Spec2Model ----
(***************************************************************************)
(* Model of guardrails/datatypes.py: the recursive validate methods of the *)
(* DataType hierarchy (scalar, List, Object, Choice, Case) executing over  *)
(* a heap of Python containers, and the FormatAttr directive parser.       *)
(*                                                                         *)
(* Python values are records [t, s, n]; containers (dict, list) live in a  *)
(* heap and are referred to by address, so that "the same object" and "an  *)
(* equal object" are different things, as they are in Python.  A validate  *)
(* call is executed as a stack of frames, one statement per step, so that  *)
(* two calls on the same schema tree can interleave.                       *)
(*                                                                         *)
(* The schema tree is taken as given (the model starts after construction);*)
(* its nodes carry the fields DataType.__init__ sets.                      *)
(***************************************************************************)
EXTENDS Integers, Sequences, FiniteSets, TLC

VARIABLES tree, heap, heap0, th, fa, io, dt, res

engineVars == <<tree, heap, heap0, th>>
fmtVars == <<fa, io>>
nodeVars == <<dt, res>>
vars == <<tree, heap, heap0, th, fa, io, dt, res>>

(* ---------------------------------------------------------------- bounds *)
MaxLen == 2
MaxValidators == 2
MaxDirLen == 4
MaxBraceLen == 5
MaxCalls == 2
MaxChildren == 2
MaxPromptLen == 5

(* ---------------------------------------------------------- Python values *)
None == [t |-> "none", s |-> "", n |-> 0]
StrV(x) == [t |-> "str", s |-> x, n |-> 0]
IntV(k) == [t |-> "int", s |-> "", n |-> k]
Ref(a) == [t |-> "ref", s |-> "", n |-> a]

EmptyMap == [k \in {} |-> None]
Dict(d) == [kind |-> "dict", d |-> d, l |-> <<>>]
PyList(l) == [kind |-> "list", d |-> EmptyMap, l |-> l]

Threads == {1, 2}

(* The heap maps the addresses in use to containers.  Every thread's       *)
(* containers are allocated in its own region of the address space.         *)
RegionSize == 3 + 2 * (MaxLen + 2) * MaxValidators
Base(t) == (t - 1) * RegionSize
Region(t) == Base(t) .. (Base(t) + RegionSize - 1)

Ok(v, h) == [exc |-> "", v |-> v, heap |-> h]
Exc(e, h) == [exc |-> e, v |-> None, heap |-> h]

(* schema[key] *)
GetItem(h, schema, key) ==
  IF schema.t # "ref" THEN Exc("TypeError", h)
  ELSE LET c == h[schema.n] IN
    IF c.kind = "dict"
    THEN IF key.t # "str" THEN Exc("Unmodelled", h)
         ELSE IF key.s \in DOMAIN c.d THEN Ok(c.d[key.s], h) ELSE Exc("KeyError", h)
    ELSE IF key.t # "int" THEN Exc("TypeError", h)
         ELSE IF key.n >= 0 /\ key.n < Len(c.l) THEN Ok(c.l[key.n + 1], h)
              ELSE Exc("IndexError", h)

(* schema[key] = v *)
SetItem(h, schema, key, v) ==
  IF schema.t # "ref" THEN Exc("TypeError", h)
  ELSE LET c == h[schema.n] IN
    IF c.kind = "dict"
    THEN IF key.t # "str" THEN Exc("Unmodelled", h)
         ELSE Ok(schema, [h EXCEPT ![schema.n] = Dict((key.s :> v) @@ c.d)])
    ELSE IF key.t # "int" THEN Exc("TypeError", h)
         ELSE IF key.n >= 0 /\ key.n < Len(c.l)
              THEN Ok(schema, [h EXCEPT ![schema.n] = PyList([c.l EXCEPT ![key.n + 1] = v])])
              ELSE Exc("IndexError", h)

(* value.get(key, None) *)
DictGet(h, value, key) ==
  IF value.t # "ref" THEN Exc("AttributeError", h)
  ELSE LET c == h[value.n] IN
    IF c.kind # "dict" THEN Exc("AttributeError", h)
    ELSE IF key.s \in DOMAIN c.d THEN Ok(c.d[key.s], h) ELSE Ok(None, h)

(* ------------------------------------------------------------ from_str *)
NumLit == {"1", "2", "42", "7"}
IntOfLit == [s \in NumLit |-> CASE s = "1" -> 1 [] s = "2" -> 2 [] s = "42" -> 42 [] s = "7" -> 7]

(* DataType.from_str / String.from_str: the value itself *)
DataTypeFromStr(s) == Ok(s, <<>>)

(* Integer.from_str mapping a literal int() cannot parse to None.        *)
IntegerFromStr_NoRaise(s) ==
  IF s.t = "int" THEN Ok(s, <<>>)
  ELSE IF s.t = "str" /\ s.s \in NumLit THEN Ok(IntV(IntOfLit[s.s]), <<>>)
  ELSE Ok(None, <<>>)

(* Integer.from_str: None stays None, otherwise int(s) *)
IntegerFromStr(s) ==
  IF s.t = "none" THEN Ok(None, <<>>)
  ELSE IF s.t = "int" THEN Ok(s, <<>>)
  ELSE IF s.t = "str"
       THEN IF s.s \in NumLit THEN Ok(IntV(IntOfLit[s.s]), <<>>) ELSE Exc("ValueError", <<>>)
  ELSE Exc("TypeError", <<>>)

(* self.from_str(value), dispatched on the node's class *)
FromStr(cls, s) ==
  CASE cls = "Integer" -> IntegerFromStr(s)
    [] OTHER -> DataTypeFromStr(s)

(* ------------------------------------------------------ the schema tree *)
Node(cls, children, validators) ==
  [cls |-> cls, children |-> children, validators |-> validators,
   value |-> None, onfail |-> "noop"]
Child(k, n) == [k |-> k, n |-> n]

NodeIds == {"obj", "obj.a", "obj.b", "obj0", "lst", "lst.item", "lst0", "nest",
            "cho", "cho.x", "cho.x.v", "cho.y", "cho.y.v"}

(* The trees the model validates against: object(a: string, b: integer),    *)
(* an object and a list without children, list(item=integer),               *)
(* object(items: list(item=integer)), and a choice with cases x (integer)   *)
(* and y (string).  leafV, compV: the validators bound to scalar and to     *)
(* composite nodes; onfail: the choice element's on-fail-choice attribute.  *)
Forest(leafV, compV, onfail) ==
  [n \in NodeIds |->
    CASE n = "obj" -> Node("Object", <<Child("a", "obj.a"), Child("b", "obj.b")>>, compV)
      [] n = "obj.a" -> Node("String", <<>>, leafV)
      [] n = "obj.b" -> Node("Integer", <<>>, leafV)
      [] n = "obj0" -> Node("Object", <<>>, compV)
      [] n = "lst" -> Node("List", <<Child("item", "lst.item")>>, compV)
      [] n = "lst.item" -> Node("Integer", <<>>, leafV)
      [] n = "lst0" -> Node("List", <<>>, compV)
      [] n = "nest" -> Node("Object", <<Child("items", "lst")>>, compV)
      [] n = "cho" -> [Node("Choice", <<Child("x", "cho.x"), Child("y", "cho.y")>>, compV)
                         EXCEPT !.onfail = onfail]
      [] n = "cho.x" -> Node("Case", <<Child("x", "cho.x.v")>>, compV)
      [] n = "cho.x.v" -> Node("Integer", <<>>, leafV)
      [] n = "cho.y" -> Node("Case", <<Child("y", "cho.y.v")>>, compV)
      [] n = "cho.y.v" -> Node("String", <<>>, leafV)]

ChildKeys(tr, n) == {tr[n].children[j].k : j \in 1 .. Len(tr[n].children)}
ChildNamed(tr, n, k) ==
  tr[n].children[CHOOSE j \in 1 .. Len(tr[n].children) : tr[n].children[j].k = k].n

(* The validate method a node's class defines (scalars inherit DataType's). *)
MethodOf(cls) == IF cls \in {"List", "Object", "Choice", "Case"} THEN cls ELSE "DataType"

(* self.validators: the bound list, except Choice's property, which         *)
(* synthesises one validator over the case names.                           *)
Validators(tr, n) == IF tr[n].cls = "Choice" THEN <<"oneof">> ELSE tr[n].validators

(* ------------------------------------------- validators (external code) *)
ValidatorKinds == {"noop", "store", "copy", "fail"}

(* The address of the next container thread t creates. *)
NewAddr(h, t) == Base(t) + Cardinality(DOMAIN h \cap Region(t))

(* validator.validate_with_correction(key, value, schema) *)
ApplyValidator(kind, tr, n, t, key, value, schema, h) ==
  CASE kind = "noop" -> Ok(schema, h)
    [] kind = "store" -> SetItem(h, schema, key, value)
    [] kind = "copy" ->
         IF schema.t # "ref" THEN Exc("TypeError", h)
         ELSE IF NewAddr(h, t) \notin Region(t) THEN Exc("Unmodelled", h)
         ELSE LET a == NewAddr(h, t) IN
              SetItem((a :> h[schema.n]) @@ h, Ref(a), key, value)
    [] kind = "fail" -> Exc("ValidatorFailure", h)
    [] kind = "oneof" ->
         IF value.t = "str" /\ value.s \in ChildKeys(tr, n) THEN Ok(schema, h)
         ELSE IF tr[n].onfail = "exception" THEN Exc("ValidatorFailure", h)
         ELSE Ok(schema, h)

(* ------------------------------------------------ the validate machine *)
(* A frame is one activation of a validate method m on node n: its          *)
(* parameters key, value, schema (rebound as the code rebinds them), the    *)
(* statement it is at (pc), a loop index i and one more local (loc): for    *)
(* List the object enumerate() was started on, for Choice selected_value.   *)
Frame(n, m, key, value, schema, pc) ==
  [n |-> n, m |-> m, key |-> key, value |-> value, schema |-> schema,
   pc |-> pc, i |-> 0, loc |-> None]

Event(e, f, schema, ret, x) ==
  [e |-> e, n |-> f.n, m |-> f.m, key |-> f.key, value |-> f.value,
   schema |-> schema, ret |-> ret, x |-> x, i |-> f.i, d |-> 0]

Top(M) == Head(M.th.stack)
SetTop(M, f) == [M EXCEPT !.th.stack = <<f>> \o Tail(M.th.stack)]
Logged(M, ev) == [M EXCEPT !.th.log = Append(M.th.log, [ev EXCEPT !.d = Len(M.th.stack)])]

(* An exception nothing catches: it unwinds every frame of the call. *)
Raise(M, e) ==
  [Logged(M, Event("raise", Top(M), Top(M).schema, None, e))
     EXCEPT !.th.stack = <<>>, !.th.status = "raised", !.th.exc = e]

(* node.validate(key, value, schema), called from frame `caller` (already   *)
(* moved to the statement that receives the result).                        *)
Call(M, caller, n, m, key, value, schema) ==
  LET f == Frame(n, m, key, value, schema, "start")
      M1 == SetTop(M, caller)
      M2 == [M1 EXCEPT !.th.stack = <<f>> \o M1.th.stack]
  IN Logged(M2, Event("call", f, schema, None, ""))

(* What the calling statement does with the container a callee returned. *)
Deliver(c, r) ==
  CASE c.m \in {"List", "Object"} -> [c EXCEPT !.value = r, !.i = c.i + 1, !.pc = "loop"]
    [] c.m = "Choice" /\ c.pc = "await_super" -> [c EXCEPT !.pc = "select"]
    [] c.m = "Choice" /\ c.pc = "await_case" -> [c EXCEPT !.pc = "write"]
    [] c.m = "Case" -> [c EXCEPT !.pc = "write"]

(* return r *)
Return(M, r) ==
  LET f == Top(M)
      rest == Tail(M.th.stack)
      M1 == Logged(M, Event("return", f, f.schema, r, ""))
  IN IF rest = <<>>
     THEN [M1 EXCEPT !.th.stack = <<>>, !.th.status = "returned", !.th.ret = r]
     ELSE [M1 EXCEPT !.th.stack = <<Deliver(Head(rest), r)>> \o Tail(rest)]

(* for validator in self.validators:                                        *)
(*     schema = validator.validate_with_correction(key, value, schema)      *)
(* one iteration: validator number f.i *)
ValidatorStep(M, f) ==
  LET kind == Validators(M.tree, f.n)[f.i + 1]
      r == ApplyValidator(kind, M.tree, f.n, M.t, f.key, f.value, f.schema, M.heap)
  IN IF r.exc # "" THEN Raise(M, r.exc)
     ELSE LET M1 == SetTop([M EXCEPT !.heap = r.heap], [f EXCEPT !.schema = r.v, !.i = f.i + 1])
          IN Logged(M1, Event("validator", f, f.schema, r.v, kind))

(* schema[key] = value; return schema *)
WriteBack(M, f) ==
  LET r == SetItem(M.heap, f.schema, f.key, f.value)
  IN IF r.exc # "" THEN Raise(M, r.exc)
     ELSE Return(Logged([M EXCEPT !.heap = r.heap], Event("write", f, f.schema, None, "")), f.schema)

(* DataType.validate keeping the coerced value on the node instead of in a *)
(* local: self.value = self.from_str(value), validators given self.value.  *)
DataTypeValidate_ValueOnSelf(M) ==
  LET f == Top(M) IN
  IF f.pc = "start"
  THEN LET r == FromStr(M.tree[f.n].cls, f.value)
       IN IF r.exc # "" THEN Raise(M, r.exc)
          ELSE SetTop([M EXCEPT !.tree[f.n].value = r.v], [f EXCEPT !.pc = "validators"])
  ELSE IF f.i < Len(Validators(M.tree, f.n))
       THEN ValidatorStep(M, [f EXCEPT !.value = M.tree[f.n].value])
  ELSE Return(M, f.schema)

(* DataType.validate *)
DataTypeValidate(M) ==
  LET f == Top(M) IN
  IF f.pc = "start"
  THEN LET r == FromStr(M.tree[f.n].cls, f.value)
       IN IF r.exc # "" THEN Raise(M, r.exc)
          ELSE SetTop(M, [f EXCEPT !.value = r.v, !.pc = "validators"])
  ELSE IF f.i < Len(Validators(M.tree, f.n)) THEN ValidatorStep(M, f)
  ELSE Return(M, f.schema)

(* List.validate: for i, item in enumerate(value):                          *)
(*                    value = item_type.validate(i, item, value)            *)
ListLoop(M, f) ==
  LET items == M.heap[f.loc.n].l
      item_type == M.tree[f.n].children[1].n
  IN IF f.i < Len(items)
     THEN Call(M, [f EXCEPT !.pc = "await"], item_type, MethodOf(M.tree[item_type].cls),
               IntV(f.i), items[f.i + 1], f.value)
     ELSE Return(M, f.schema)

ListValidate(M) ==
  LET f == Top(M) IN
  IF f.pc = "start"
  THEN IF f.i < Len(Validators(M.tree, f.n)) THEN ValidatorStep(M, f)
       ELSE IF Len(M.tree[f.n].children) = 0 THEN Return(M, f.schema)
       ELSE IF f.value.t # "ref" \/ M.heap[f.value.n].kind # "list" THEN Raise(M, "TypeError")
       ELSE ListLoop(M, [f EXCEPT !.pc = "loop", !.i = 0, !.loc = f.value])
  ELSE ListLoop(M, f)

(* Object.validate: for child_key, child_data_type in self._children.items(): *)
(*     value = child_data_type.validate(child_key, value.get(child_key, None), value) *)
ObjectLoop(M, f) ==
  LET children == M.tree[f.n].children IN
  IF f.i < Len(children)
  THEN LET c == children[f.i + 1]
           got == DictGet(M.heap, f.value, StrV(c.k))
       IN IF got.exc # "" THEN Raise(M, got.exc)
          ELSE Call(M, [f EXCEPT !.pc = "await"], c.n, MethodOf(M.tree[c.n].cls),
                    StrV(c.k), got.v, f.value)
  ELSE WriteBack(M, f)

ObjectValidate(M) ==
  LET f == Top(M) IN
  IF f.pc = "start"
  THEN IF f.i < Len(Validators(M.tree, f.n)) THEN ValidatorStep(M, f)
       ELSE IF Len(M.tree[f.n].children) = 0 THEN Return(M, f.schema)
       ELSE ObjectLoop(M, [f EXCEPT !.pc = "loop", !.i = 0])
  ELSE ObjectLoop(M, f)

(* Choice.validate validating the first declared case, whatever the selector. *)
ChoiceValidate_FirstCase(M) ==
  LET f == Top(M) IN
  CASE f.pc = "start" ->
         Call(M, [f EXCEPT !.pc = "await_super"], f.n, "DataType", f.key, f.value, f.schema)
    [] f.pc = "select" ->
         LET first == M.tree[f.n].children[1]
             selected == GetItem(M.heap, f.schema, StrV(first.k)) IN
         IF selected.exc # "" THEN Raise(M, selected.exc)
         ELSE Call(M, [f EXCEPT !.pc = "await_case", !.loc = selected.v],
                   first.n, "Case", StrV(first.k), selected.v, f.schema)
    [] f.pc = "write" -> WriteBack(M, f)

(* Choice.validate writing selected_value, not value, to schema[key]. *)
ChoiceValidate_WritesSelected(M) ==
  LET f == Top(M) IN
  CASE f.pc = "start" ->
         Call(M, [f EXCEPT !.pc = "await_super"], f.n, "DataType", f.key, f.value, f.schema)
    [] f.pc = "select" ->
         LET selected == GetItem(M.heap, f.schema, f.value) IN
         IF selected.exc # "" THEN Raise(M, selected.exc)
         ELSE IF f.value.s \notin ChildKeys(M.tree, f.n) THEN Raise(M, "KeyError")
         ELSE Call(M, [f EXCEPT !.pc = "await_case", !.loc = selected.v],
                   ChildNamed(M.tree, f.n, f.value.s), "Case", f.value, selected.v, f.schema)
    [] f.pc = "write" -> WriteBack(M, [f EXCEPT !.value = f.loc])

(* Choice.validate *)
ChoiceValidate(M) ==
  LET f == Top(M) IN
  CASE f.pc = "start" ->
         Call(M, [f EXCEPT !.pc = "await_super"], f.n, "DataType", f.key, f.value, f.schema)
    [] f.pc = "select" ->
         LET selected == GetItem(M.heap, f.schema, f.value) IN
         IF selected.exc # "" THEN Raise(M, selected.exc)
         ELSE IF f.value.s \notin ChildKeys(M.tree, f.n) THEN Raise(M, "KeyError")
         ELSE Call(M, [f EXCEPT !.pc = "await_case", !.loc = selected.v],
                   ChildNamed(M.tree, f.n, f.value.s), "Case", f.value, selected.v, f.schema)
    [] f.pc = "write" -> WriteBack(M, f)

(* Case.validate *)
CaseValidate(M) ==
  LET f == Top(M) IN
  IF f.pc = "start"
  THEN IF Len(M.tree[f.n].children) = 0 THEN Raise(M, "IndexError")
       ELSE LET child == M.tree[f.n].children[1].n
            IN Call(M, [f EXCEPT !.pc = "await"], child, MethodOf(M.tree[child].cls),
                    f.key, f.value, f.schema)
  ELSE WriteBack(M, f)

(* One statement of whichever validate method is on top of the stack. *)
StepMachine(M) ==
  CASE Top(M).m = "DataType" -> DataTypeValidate(M)
    [] Top(M).m = "List" -> ListValidate(M)
    [] Top(M).m = "Object" -> ObjectValidate(M)
    [] Top(M).m = "Choice" -> ChoiceValidate(M)
    [] Top(M).m = "Case" -> CaseValidate(M)

(* The caller's root.validate(key, value, schema): the first frame. *)
StartMachine(M, value, schema) ==
  LET f == Frame(M.th.root, MethodOf(M.tree[M.th.root].cls), M.th.key, value, schema, "start")
  IN Logged([M EXCEPT !.th.status = "running", !.th.stack = <<f>>],
            Event("call", f, f.schema, None, ""))

(* A call run to its end with nothing else running. *)
RECURSIVE RunAlone(_)
RunAlone(M) == IF M.th.status # "running" THEN M ELSE RunAlone(StepMachine(M))

(* ------------------------------------------------------------- inputs *)
SeqsUpTo(S, k) == UNION {[1 .. j -> S] : j \in 0 .. k}
VLists == SeqsUpTo(ValidatorKinds, MaxValidators)
Restrict(f, D) == [k \in D |-> f[k]]

(* A top-level call root.validate(key, value, objs[1]) with the containers  *)
(* it is given; references inside objs are relative to the caller's region. *)
Scenario(root, key, value, objs) == [root |-> root, key |-> key, value |-> value, objs |-> objs]

ObjectValues ==
  {Dict([k \in D |-> StrV(f[k])]) : f \in [a : {"hi"}, b : {"1", "x"}], D \in SUBSET {"a", "b"}}
ListValues == {PyList([j \in DOMAIN l |-> StrV(l[j])]) : l \in SeqsUpTo({"1", "2", "x"}, MaxLen)}
ChoiceContainers ==
  {Dict([k \in D \cup {"selector"} |-> StrV(f[k])]) :
     f \in [selector : {"x", "y", "z"}, x : {"42", "hi"}, y : {"7"}], D \in SUBSET {"x", "y"}}

ObjectScenarios ==
  {Scenario(r, StrV("o"), Ref(1), <<Dict(EmptyMap), v>>) : r \in {"obj", "obj0"}, v \in ObjectValues}
ListScenarios ==
  {Scenario(r, StrV("l"), Ref(1), <<Dict(EmptyMap), v>>) : r \in {"lst", "lst0"}, v \in ListValues}
NestScenarios ==
  {Scenario("nest", StrV("o"), Ref(1), <<Dict(EmptyMap), Dict("items" :> Ref(2)), v>>) : v \in ListValues}
    \cup {Scenario("nest", StrV("o"), Ref(1), <<Dict(EmptyMap), Dict(EmptyMap)>>)}
ChoiceScenarios ==
  {Scenario("cho", StrV("selector"), c.d["selector"], <<c>>) : c \in ChoiceContainers}
Scenarios == ObjectScenarios \cup ListScenarios \cup NestScenarios \cup ChoiceScenarios

Relocate(v, base) == IF v.t = "ref" THEN Ref(v.n + base) ELSE v
RelocateIn(c, base) ==
  [kind |-> c.kind, d |-> [k \in DOMAIN c.d |-> Relocate(c.d[k], base)],
   l |-> [j \in DOMAIN c.l |-> Relocate(c.l[j], base)]]

(* The heap with every thread's containers loaded into its region. *)
Load(scs) ==
  [a \in UNION {Base(t) .. (Base(t) + Len(scs[t].objs) - 1) : t \in DOMAIN scs} |->
     LET t == (a \div RegionSize) + 1
     IN RelocateIn(scs[t].objs[a - Base(t) + 1], Base(t))]

Thread(status, sc, t) ==
  [status |-> status, stack |-> <<>>, log |-> <<>>, ret |-> None, exc |-> "", run |-> 1,
   root |-> sc.root, key |-> sc.key, value |-> Relocate(sc.value, Base(t)),
   schema |-> Ref(Base(t)), snap |-> <<>>]

NoScenario == Scenario("obj0", StrV("o"), None, <<>>)

(* ------------------------------------------------------------ actions *)
Machine(t) == [t |-> t, th |-> th[t], heap |-> heap, tree |-> tree]
Commit(M) ==
  /\ th' = [th EXCEPT ![M.t] = M.th]
  /\ heap' = M.heap
  /\ tree' = M.tree
  /\ UNCHANGED <<heap0, fa, io, dt, res>>

(* The caller invokes root.validate(key, value, container). *)
Start(t) ==
  /\ th[t].status = "ready"
  /\ Commit(StartMachine(Machine(t), th[t].value, th[t].schema))

(* The caller validates the container it got back once more, with the same  *)
(* key and the value now found under that key (the value it passed before   *)
(* when the container has no such entry).                                   *)
Revalidate(t) ==
  /\ th[t].status = "returned"
  /\ th[t].run = 1
  /\ LET now == GetItem(heap, th[t].ret, th[t].key)
         M == [Machine(t) EXCEPT !.th.run = 2, !.th.snap = heap, !.th.log = <<>>]
     IN Commit(StartMachine(M, IF now.exc = "" THEN now.v ELSE th[t].value, th[t].ret))

Running(t, m) == th[t].status = "running" /\ Head(th[t].stack).m = m

StepDataType(t) == Running(t, "DataType") /\ Commit(DataTypeValidate(Machine(t)))
StepList(t) == Running(t, "List") /\ Commit(ListValidate(Machine(t)))
StepObject(t) == Running(t, "Object") /\ Commit(ObjectValidate(Machine(t)))
StepChoice(t) == Running(t, "Choice") /\ Commit(ChoiceValidate(Machine(t)))
StepCase(t) == Running(t, "Case") /\ Commit(CaseValidate(Machine(t)))

Step(t) ==
  \/ StepDataType(t)
  \/ StepList(t)
  \/ StepObject(t)
  \/ StepChoice(t)
  \/ StepCase(t)

(* ------------------------------------------- one node: from_str, from_xml *)
(* Values a single node's from_str takes and gives: a str is a sequence of *)
(* one-character strings, a time or date is its isoformat().                *)
NoneC == [t |-> "none", c |-> <<>>, n |-> 0]
StrC(cs) == [t |-> "str", c |-> cs, n |-> 0]
BoolC(b) == [t |-> "bool", c |-> <<>>, n |-> IF b THEN 1 ELSE 0]
IntC(k) == [t |-> "int", c |-> <<>>, n |-> k]
TimeC(cs) == [t |-> "time", c |-> cs, n |-> 0]
DateC(cs) == [t |-> "date", c |-> cs, n |-> 0]

(* What the caller of a node operation gets: a value or an exception. *)
(* arg is what the operation was called with.                               *)
Returned(op, arg, v) == [op |-> op, arg |-> arg, exc |-> "", v |-> v]
Raised(op, arg, e) == [op |-> op, arg |-> arg, exc |-> e, v |-> NoneC]
NoOutcome == Returned("none", NoneC, NoneC)

(* str.lower, on the letters the model's literals are written with. *)
LowerChar(c) ==
  CASE c = "T" -> "t" [] c = "R" -> "r" [] c = "U" -> "u" [] c = "E" -> "e"
    [] c = "F" -> "f" [] c = "A" -> "a" [] c = "L" -> "l" [] c = "S" -> "s"
    [] c = "M" -> "m" [] c = "Y" -> "y" [] c = "B" -> "b"
    [] OTHER -> c
Lower(cs) == [j \in DOMAIN cs |-> LowerChar(cs[j])]

(* Boolean.from_str accepting any str whose first letter is t or f. *)
BooleanFromStr_FirstLetter(s) ==
  IF s.t = "none" THEN Returned("from_str", s, NoneC)
  ELSE IF s.t = "bool" THEN Returned("from_str", s, s)
  ELSE IF s.t # "str" THEN Raised("from_str", s, "AttributeError")
  ELSE IF s.c # <<>> /\ Lower(s.c)[1] = "t" THEN Returned("from_str", s, BoolC(TRUE))
  ELSE IF s.c # <<>> /\ Lower(s.c)[1] = "f" THEN Returned("from_str", s, BoolC(FALSE))
  ELSE Raised("from_str", s, "ValueError")

(* Boolean.from_str *)
BooleanFromStr(s) ==
  IF s.t = "none" THEN Returned("from_str", s, NoneC)
  ELSE IF s.t = "bool" THEN Returned("from_str", s, s)
  ELSE IF s.t # "str" THEN Raised("from_str", s, "AttributeError")
  ELSE IF Lower(s.c) = <<"t", "r", "u", "e">> THEN Returned("from_str", s, BoolC(TRUE))
  ELSE IF Lower(s.c) = <<"f", "a", "l", "s", "e">> THEN Returned("from_str", s, BoolC(FALSE))
  ELSE Raised("from_str", s, "ValueError")

(* A DataType object: its class, the attributes __init__ sets that the     *)
(* model reads (_children as its items in insertion order) and, for Date    *)
(* and Time, the format attributes; <<>> is an attribute the object lacks.  *)
NoDataType == [some |-> FALSE, cls |-> "", children |-> <<>>, date_format |-> <<>>, time_format |-> <<>>]
DataType(cls) == [NoDataType EXCEPT !.some = TRUE, !.cls = cls]

DefaultDateFormat == <<"%", "Y", "-", "%", "m", "-", "%", "d">>
DefaultTimeFormat == <<"%", "H", ":", "%", "M", ":", "%", "S">>

(* cls(...) called the way each __init__ is declared: Date and Time set    *)
(* their default pattern before DataType.__init__ runs.                     *)
New(cls) ==
  CASE cls = "Date" -> [DataType(cls) EXCEPT !.date_format = DefaultDateFormat]
    [] cls = "Time" -> [DataType(cls) EXCEPT !.time_format = DefaultTimeFormat]
    [] OTHER -> DataType(cls)

(* An element of the markup: tag, attributes, child elements. *)
Markup(tag, attrib, children) == [tag |-> tag, attrib |-> attrib, children |-> children]

Built(d) == [exc |-> "", node |-> d]
Failed(e) == [exc |-> e, node |-> NoDataType]

(* cls(element_type=..., name=..., description=..., children=...,           *)
(* validators=...): no __init__ of the module takes element_type.           *)
NewWithKeywords(cls) == Failed("TypeError")

(* DataType.from_xml(element), the definition the class ends up with: the  *)
(* second one of the class body.  Children are built first, in order.       *)
RECURSIVE DataTypeFromXml(_, _)
RECURSIVE ChildrenFromXml(_, _)
ChildrenFromXml(els, j) ==
  IF j > Len(els) THEN Built(NoDataType)
  ELSE LET r == DataTypeFromXml("DataType", els[j])
       IN IF r.exc # "" THEN r ELSE ChildrenFromXml(els, j + 1)
DataTypeFromXml(cls, element) ==
  IF "name" \notin DOMAIN element.attrib THEN Failed("KeyError")
  ELSE LET r == ChildrenFromXml(element.children, 1)
       IN IF r.exc # "" THEN r ELSE NewWithKeywords(cls)

(* super().from_xml(element, strict) in Date.from_xml and Time.from_xml:   *)
(* DataType.from_xml takes the element only.                                *)
SuperFromXml(cls, args) ==
  IF Len(args) # 1 THEN Failed("TypeError") ELSE DataTypeFromXml(cls, args[1])

(* Date.from_xml *)
DateFromXml(element, strict) ==
  LET r == SuperFromXml("Date", <<element, strict>>)
  IN IF r.exc # "" THEN r
     ELSE IF "date-format" \in DOMAIN element.attrib
     THEN Built([r.node EXCEPT !.date_format = element.attrib["date-format"]])
     ELSE r

(* Time.from_xml: the attribute assigned is date_format. *)
TimeFromXml(element, strict) ==
  LET r == SuperFromXml("Time", <<element, strict>>)
  IN IF r.exc # "" THEN r
     ELSE IF "time-format" \in DOMAIN element.attrib
     THEN Built([r.node EXCEPT !.date_format = element.attrib["time-format"]])
     ELSE r

(* cls.from_xml(element), strict defaulted. *)
FromXml(cls, element) ==
  CASE cls = "Date" -> DateFromXml(element, FALSE)
    [] cls = "Time" -> TimeFromXml(element, FALSE)
    [] OTHER -> DataTypeFromXml(cls, element)

(* registry: the class registered for each tag. *)
Registry ==
  [tag \in {"string", "integer", "bool", "date", "time", "object"} |->
     CASE tag = "string" -> "String" [] tag = "integer" -> "Integer" [] tag = "bool" -> "Boolean"
       [] tag = "date" -> "Date" [] tag = "time" -> "Time" [] tag = "object" -> "Object"]

(* self._children[name] = node on a dict kept as its items in insertion   *)
(* order: a name already present keeps its position and gets the new node.  *)
ChildSet(items, name, cls) ==
  IF \E k \in DOMAIN items : items[k].k = name
  THEN [k \in DOMAIN items |-> IF items[k].k = name THEN [k |-> name, cls |-> cls] ELSE items[k]]
  ELSE Append(items, [k |-> name, cls |-> cls])

(* Object.set_children: the right-hand side from_xml(child) is evaluated   *)
(* before the key child.attrib["name"]; the assignment is a dict store.     *)
RECURSIVE SetChildrenFrom(_, _, _)
SetChildrenFrom(d, els, j) ==
  IF j > Len(els) THEN Built(d)
  ELSE LET child == els[j] IN
       IF child.tag \notin DOMAIN Registry THEN [exc |-> "KeyError", node |-> d]
       ELSE LET r == FromXml(Registry[child.tag], child)
            IN IF r.exc # "" THEN [exc |-> r.exc, node |-> d]
               ELSE IF "name" \notin DOMAIN child.attrib THEN [exc |-> "KeyError", node |-> d]
               ELSE SetChildrenFrom(
                      [d EXCEPT !.children = ChildSet(d.children, child.attrib["name"], r.node.cls)],
                      els, j + 1)
ObjectSetChildren(d, element) == SetChildrenFrom(d, element.children, 1)

Digits == {"0", "1", "2", "3", "9"}

(* datetime.datetime.strptime(cs, fmt) from position i of cs and j of fmt, *)
(* on literals whose fields are in range and written with all their digits: *)
(* a directive takes its digits, any other character must be matched.       *)
RECURSIVE StrptimeFrom(_, _, _, _, _)
StrptimeFrom(cs, i, fmt, j, fields) ==
  IF j > Len(fmt)
  THEN IF i > Len(cs) THEN [exc |-> "", fields |-> fields] ELSE [exc |-> "ValueError", fields |-> fields]
  ELSE IF fmt[j] = "%"
  THEN IF j = Len(fmt) \/ fmt[j + 1] \notin {"H", "M", "S", "Y", "m", "d"}
       THEN [exc |-> "ValueError", fields |-> fields]
       ELSE LET w == IF fmt[j + 1] = "Y" THEN 4 ELSE 2 IN
            IF i + w - 1 <= Len(cs) /\ \A k \in i .. (i + w - 1) : cs[k] \in Digits
            THEN StrptimeFrom(cs, i + w, fmt, j + 2,
                              [fields EXCEPT ![fmt[j + 1]] = SubSeq(cs, i, i + w - 1)])
            ELSE [exc |-> "ValueError", fields |-> fields]
  ELSE IF i <= Len(cs) /\ cs[i] = fmt[j]
       THEN StrptimeFrom(cs, i + 1, fmt, j + 1, fields)
       ELSE [exc |-> "ValueError", fields |-> fields]

(* The datetime strptime builds where the pattern has no directive. *)
Epoch ==
  [d \in {"H", "M", "S", "Y", "m", "d"} |->
     CASE d = "Y" -> <<"1", "9", "0", "0">> [] d \in {"m", "d"} -> <<"0", "1">>
       [] OTHER -> <<"0", "0">>]
Strptime(cs, fmt) == StrptimeFrom(cs, 1, fmt, 1, Epoch)

(* Date.from_str *)
DateFromStr(d, s) ==
  IF s.t = "none" THEN Returned("from_str", s, NoneC)
  ELSE IF d.date_format = <<>> THEN Raised("from_str", s, "AttributeError")
  ELSE IF s.t # "str" THEN Raised("from_str", s, "TypeError")
  ELSE LET r == Strptime(s.c, d.date_format)
       IN IF r.exc # "" THEN Raised("from_str", s, r.exc)
          ELSE Returned("from_str", s,
                        DateC(r.fields["Y"] \o <<"-">> \o r.fields["m"] \o <<"-">> \o r.fields["d"]))

(* Time.from_str *)
TimeFromStr(d, s) ==
  IF s.t = "none" THEN Returned("from_str", s, NoneC)
  ELSE IF d.time_format = <<>> THEN Raised("from_str", s, "AttributeError")
  ELSE IF s.t # "str" THEN Raised("from_str", s, "TypeError")
  ELSE LET r == Strptime(s.c, d.time_format)
       IN IF r.exc # "" THEN Raised("from_str", s, r.exc)
          ELSE Returned("from_str", s,
                        TimeC(r.fields["H"] \o <<":">> \o r.fields["M"] \o <<":">> \o r.fields["S"]))

(* node.from_str(s), by the class of the node. *)
NodeFromStr(d, s) ==
  CASE d.cls = "Boolean" -> BooleanFromStr(s)
    [] d.cls = "Date" -> DateFromStr(d, s)
    [] d.cls = "Time" -> TimeFromStr(d, s)
    [] OTHER -> Returned("from_str", s, s)

(* ---------------------------------------------------------- FormatAttr *)
(* A str is a sequence of one-character strings.  The format attribute and *)
(* the element are Optional: [some |-> FALSE] is None.                      *)
NoFormat == [some |-> FALSE, s |-> <<>>]
Format(s) == [some |-> TRUE, s |-> s]
NoElement == [some |-> FALSE, tag |-> "", attrib |-> {}]
Element(tag, attrib) == [some |-> TRUE, tag |-> tag, attrib |-> attrib]

(* FormatAttr(format, element); _validators and _unregistered_validators   *)
(* do not exist (cached = FALSE) until get_validators assigns them.         *)
FormatAttr(format, element) ==
  [format |-> format, element |-> element, cached |-> FALSE,
   validators |-> <<>>, unregistered |-> <<>>]

Whitespace == {" "}
RECURSIVE LStrip(_)
LStrip(s) == IF s # <<>> /\ Head(s) \in Whitespace THEN LStrip(Tail(s)) ELSE s
RECURSIVE RStrip(_)
RStrip(s) == IF s # <<>> /\ s[Len(s)] \in Whitespace THEN RStrip(SubSeq(s, 1, Len(s) - 1)) ELSE s
StrStrip(s) == RStrip(LStrip(s))

(* The lookahead [^{}]*} at position p + 1: the next brace character after *)
(* p, if there is one, is a closing brace.                                  *)
BraceAhead(s, p) ==
  \E q \in (p + 1) .. Len(s) :
    s[q] = "}" /\ \A r \in (p + 1) .. (q - 1) : s[r] \notin {"{", "}"}

(* re.split at the positions in cuts, from position `from` on. *)
RECURSIVE ReSplit(_, _, _)
ReSplit(s, from, cuts) ==
  LET next == {p \in cuts : p >= from} IN
  IF next = {} THEN <<SubSeq(s, from, Len(s))>>
  ELSE LET p == CHOOSE x \in next : \A y \in next : x <= y
       IN <<SubSeq(s, from, p - 1)>> \o ReSplit(s, p + 1, cuts)

(* list(filter(None, tokens)) *)
NonEmpty(l) == SelectSeq(l, LAMBDA x : x # <<>>)

(* FormatAttr.tokens: split at ";(?![^{}]*})" *)
Tokens(f) ==
  IF ~f.format.some THEN <<>>
  ELSE LET s == f.format.s
       IN NonEmpty(ReSplit(s, 1, {p \in DOMAIN s : s[p] = ";" /\ ~BraceAhead(s, p)}))

(* FormatAttr.parse_token.  The second alternative of the argument pattern *)
(* needs a quote character and no directive of the model has one; an        *)
(* argument in braces goes to eval(), which is not modelled: no directive   *)
(* of the model has both a colon and a brace.                               *)
ParseToken(token) ==
  LET st == StrStrip(token)
      colons == {p \in DOMAIN st : st[p] = ":"}
  IN IF colons = {} THEN [exc |-> "", name |-> StrStrip(st), args |-> <<>>]
     ELSE LET c == CHOOSE x \in colons : \A y \in colons : x <= y
              validator == SubSeq(st, 1, c - 1)
              args_token == SubSeq(st, c + 1, Len(st))
              tokens == NonEmpty(ReSplit(args_token, 1,
                          {p \in DOMAIN args_token :
                             args_token[p] \in Whitespace /\ ~BraceAhead(args_token, p)}))
              args == [j \in DOMAIN tokens |-> StrStrip(tokens[j])]
          IN IF \E j \in DOMAIN args : Head(args[j]) = "{" /\ args[j][Len(args[j])] = "}"
             THEN [exc |-> "Unmodelled", name |-> <<>>, args |-> <<>>]
             ELSE [exc |-> "", name |-> StrStrip(validator), args |-> args]

(* validators[validator_name] = args on a dict kept as its items in        *)
(* insertion order: a name already present keeps its position.              *)
DictSet(items, name, args) ==
  IF \E k \in DOMAIN items : items[k].name = name
  THEN [k \in DOMAIN items |->
          IF items[k].name = name THEN [name |-> name, args |-> args] ELSE items[k]]
  ELSE Append(items, [name |-> name, args |-> args])

RECURSIVE ParseFrom(_, _, _)
ParseFrom(tokens, j, items) ==
  IF j > Len(tokens) THEN [exc |-> "", items |-> items]
  ELSE LET r == ParseToken(tokens[j])
       IN IF r.exc # "" THEN [exc |-> r.exc, items |-> <<>>]
          ELSE ParseFrom(tokens, j + 1, DictSet(items, r.name, r.args))

(* FormatAttr.parse *)
Parse(f) ==
  IF ~f.format.some THEN [exc |-> "", items |-> <<>>] ELSE ParseFrom(Tokens(f), 1, <<>>)

(* guardrails.validators.types_to_validators: the validator names that     *)
(* apply to each element tag.                                               *)
TypesToValidators == [tag \in {"string"} |-> {<<"a">>, <<"a", "b">>}]

Registered_Any(f, name) == TRUE

(* validator_name in types_to_validators[self.element.tag] *)
Registered(f, name) == name \in TypesToValidators[f.element.tag]

(* The constructor validators_registry[validator_name], called with the   *)
(* arguments and on_fail: a new validator object; id tells one constructed *)
(* object from another.                                                     *)
NewValidator(name, args, on_fail, id) ==
  [name |-> name, args |-> args, on_fail |-> on_fail, id |-> id]

(* The loop of get_validators over the parsed items, from item j on, with  *)
(* the two lists built so far and the number of objects constructed.        *)
RECURSIVE BindFrom(_, _, _, _, _, _, _)
BindFrom(f, strict, items, j, vs, un, made) ==
  IF j > Len(items)
  THEN [exc |-> "", at |-> <<>>, validators |-> vs, unregistered |-> un, made |-> made]
  ELSE IF ~f.element.some
  THEN [exc |-> "AttributeError", at |-> <<>>, validators |-> vs, unregistered |-> un, made |-> made]
  ELSE LET name == items[j].name IN
       IF ~Registered(f, name)
       THEN IF strict
            THEN [exc |-> "ValueError", at |-> name, validators |-> vs, unregistered |-> un,
                  made |-> made]
            ELSE BindFrom(f, strict, items, j + 1, vs, Append(un, name), made)
       ELSE LET on_fail == IF name \in f.element.attrib THEN "fix" ELSE "None"
            IN BindFrom(f, strict, items, j + 1,
                        Append(vs, NewValidator(name, items[j].args, on_fail, made + 1)),
                        un, made + 1)

(* What a caller sees of an operation: its return value or its exception.  *)
Outcome(op, strict, exc, at, v, u) ==
  [op |-> op, strict |-> strict, exc |-> exc, at |-> at, v |-> v, u |-> u]

(* The observer: get_validators calls, parse calls and validator objects   *)
(* constructed so far, and the outcome of the last operation.               *)
NoCalls == [calls |-> 0, parses |-> 0, made |-> 0,
            last |-> Outcome("none", FALSE, "", <<>>, <<>>, <<>>)]

(* get_validators answering from the lists an earlier call stored. *)
GetValidators_Cached(f, o, strict) ==
  IF f.cached
  THEN [fa |-> f,
        io |-> [o EXCEPT !.calls = o.calls + 1,
                         !.last = Outcome("get", strict, "", <<>>, f.validators, <<>>)]]
  ELSE LET p == Parse(f)
           b == BindFrom(f, strict, p.items, 1, <<>>, <<>>, o.made)
           o1 == [o EXCEPT !.calls = o.calls + 1, !.parses = o.parses + 1, !.made = b.made]
       IN IF b.exc # ""
          THEN [fa |-> f, io |-> [o1 EXCEPT !.last = Outcome("get", strict, b.exc, b.at, <<>>, <<>>)]]
          ELSE [fa |-> [f EXCEPT !.cached = TRUE, !.validators = b.validators,
                                 !.unregistered = b.unregistered],
                io |-> [o1 EXCEPT !.last = Outcome("get", strict, "", <<>>, b.validators, <<>>)]]

(* FormatAttr.get_validators *)
GetValidators(f, o, strict) ==
  LET p == Parse(f)
      o1 == [o EXCEPT !.calls = o.calls + 1, !.parses = o.parses + 1]
  IN IF p.exc # ""
     THEN [fa |-> f, io |-> [o1 EXCEPT !.last = Outcome("get", strict, p.exc, <<>>, <<>>, <<>>)]]
     ELSE LET b == BindFrom(f, strict, p.items, 1, <<>>, <<>>, o.made)
              o2 == [o1 EXCEPT !.made = b.made]
          IN IF b.exc # ""
             THEN [fa |-> f,
                   io |-> [o2 EXCEPT !.last = Outcome("get", strict, b.exc, b.at, <<>>, <<>>)]]
             ELSE [fa |-> [f EXCEPT !.cached = TRUE, !.validators = b.validators,
                                    !.unregistered = b.unregistered],
                   io |-> [o2 EXCEPT !.last = Outcome("get", strict, "", <<>>, b.validators, <<>>)]]

(* The validators and unregistered_validators properties, read together. *)
ReadProperties(f) ==
  IF f.cached THEN Outcome("read", FALSE, "", <<>>, f.validators, f.unregistered)
  ELSE Outcome("read", FALSE, "AttributeError", <<>>, <<>>, <<>>)

(* A caller invokes get_validators(strict). *)
CallGetValidators(strict) ==
  /\ fa.format.some \/ fa.element.some
  /\ io.calls < MaxCalls
  /\ LET r == GetValidators(fa, io, strict)
     IN fa' = r.fa /\ io' = r.io
  /\ UNCHANGED <<engineVars, nodeVars>>

(* A caller reads the two properties. *)
ReadValidators ==
  /\ fa.format.some \/ fa.element.some
  /\ io' = [io EXCEPT !.last = ReadProperties(fa)]
  /\ UNCHANGED <<fa, engineVars, nodeVars>>

NameChars == {"a", "b", ";", ":", " "}
BraceChars == {";", "{", "}"}

InitFmt ==
  /\ \/ \E d \in SeqsUpTo(NameChars, MaxDirLen) :
          fa = FormatAttr(Format(d), Element("string", {<<"a">>}))
     \/ \E d \in SeqsUpTo(BraceChars, MaxBraceLen), el \in {NoElement, Element("string", {})} :
          fa = FormatAttr(Format(d), el)
     \/ fa = FormatAttr(NoFormat, Element("string", {}))
  /\ io = NoCalls
  /\ tree = Forest(<<>>, <<>>, "noop")
  /\ heap = Load(<<>>)
  /\ heap0 = heap
  /\ th = [t \in Threads |-> Thread("idle", NoScenario, t)]
  /\ dt = NoDataType
  /\ res = NoOutcome

NextFmt ==
  \/ \E strict \in BOOLEAN : CallGetValidators(strict)
  \/ ReadValidators

SpecFmt == InitFmt /\ [][NextFmt]_vars

(* ------------------------------------------------------------ to_prompt *)
(* sep.join(l) *)
RECURSIVE Join(_, _)
Join(sep, l) ==
  IF l = <<>> THEN <<>>
  ELSE IF Len(l) = 1 THEN l[1]
  ELSE l[1] \o sep \o Join(sep, Tail(l))

(* Validator.to_prompt: the name, then the arguments if there are any. *)
ValidatorToPrompt(v, with_keywords) ==
  IF v.args = <<>> THEN v.name ELSE v.name \o <<":", " ">> \o Join(<<" ">>, v.args)

(* to_prompt putting the unregistered names before the validators. *)
ToPrompt_UnregisteredFirst(f, with_keywords) ==
  IF ~f.format.some THEN Returned("to_prompt", NoneC, StrC(<<>>))
  ELSE IF ~f.cached THEN Raised("to_prompt", NoneC, "AttributeError")
  ELSE LET prompt == Join(<<";", " ">>,
                          [j \in DOMAIN f.validators |-> ValidatorToPrompt(f.validators[j], with_keywords)])
           unreg_prompt == Join(<<";", " ">>, f.unregistered)
       IN Returned("to_prompt", NoneC,
                   StrC(IF prompt # <<>> /\ unreg_prompt # <<>>
                        THEN unreg_prompt \o <<";", " ">> \o prompt
                        ELSE IF unreg_prompt # <<>> THEN unreg_prompt
                        ELSE prompt))

(* FormatAttr.to_prompt *)
ToPrompt(f, with_keywords) ==
  IF ~f.format.some THEN Returned("to_prompt", NoneC, StrC(<<>>))
  ELSE IF ~f.cached THEN Raised("to_prompt", NoneC, "AttributeError")
  ELSE LET prompt == Join(<<";", " ">>,
                          [j \in DOMAIN f.validators |-> ValidatorToPrompt(f.validators[j], with_keywords)])
           unreg_prompt == Join(<<";", " ">>, f.unregistered)
       IN Returned("to_prompt", NoneC,
                   StrC(IF prompt # <<>> /\ unreg_prompt # <<>>
                        THEN prompt \o <<";", " ">> \o unreg_prompt
                        ELSE IF unreg_prompt # <<>> THEN prompt \o unreg_prompt
                        ELSE prompt))

(* A caller invokes to_prompt(with_keywords). *)
CallToPrompt(with_keywords) ==
  /\ res' = ToPrompt(fa, with_keywords)
  /\ UNCHANGED <<fa, io, dt, engineVars>>

PromptChars == {"a", "b", ";", ":"}

InitPrompt ==
  /\ \/ \E d \in SeqsUpTo(PromptChars, MaxPromptLen) :
          fa = FormatAttr(Format(d), Element("string", {}))
     \/ fa = FormatAttr(NoFormat, Element("string", {}))
  /\ io = NoCalls
  /\ tree = Forest(<<>>, <<>>, "noop")
  /\ heap = Load(<<>>)
  /\ heap0 = heap
  /\ th = [t \in Threads |-> Thread("idle", NoScenario, t)]
  /\ dt = NoDataType
  /\ res = NoOutcome

NextPrompt ==
  \/ \E strict \in BOOLEAN : CallGetValidators(strict)
  \/ \E with_keywords \in BOOLEAN : CallToPrompt(with_keywords)

SpecPrompt == InitPrompt /\ [][NextPrompt]_vars

(* ------------------------------------------------ callers of one node *)
(* A caller constructs a node with its class's constructor. *)
Construct(cls) ==
  /\ dt' = New(cls)
  /\ res' = Returned("new", NoneC, NoneC)
  /\ UNCHANGED <<engineVars, fmtVars>>

(* A caller invokes cls.from_xml(element) for the class registered for the *)
(* element's tag; the node it builds, if any, is the node used from then on.*)
CallFromXml(element) ==
  /\ element.tag \in DOMAIN Registry
  /\ LET r == FromXml(Registry[element.tag], element)
     IN /\ dt' = IF r.exc = "" THEN r.node ELSE dt
        /\ res' = IF r.exc = "" THEN Returned("from_xml", element, NoneC)
                  ELSE Raised("from_xml", element, r.exc)
  /\ UNCHANGED <<engineVars, fmtVars>>

(* A caller invokes set_children(element) on an Object node. *)
CallSetChildren(element) ==
  /\ dt.some /\ dt.cls = "Object"
  /\ LET r == ObjectSetChildren(dt, element)
     IN /\ dt' = r.node
        /\ res' = IF r.exc = "" THEN Returned("set_children", element, NoneC)
                  ELSE Raised("set_children", element, r.exc)
  /\ UNCHANGED <<engineVars, fmtVars>>

(* A caller invokes from_str(s) on the node. *)
CallFromStr(s) ==
  /\ dt.some
  /\ res' = NodeFromStr(dt, s)
  /\ UNCHANGED <<dt, engineVars, fmtVars>>

UpperChar(c) ==
  CASE c = "t" -> "T" [] c = "r" -> "R" [] c = "u" -> "U" [] c = "e" -> "E"
    [] c = "f" -> "F" [] c = "a" -> "A" [] c = "l" -> "L" [] c = "s" -> "S"
    [] c = "m" -> "M" [] c = "y" -> "Y" [] c = "b" -> "B"
    [] OTHER -> c
Casings(w) == {[j \in DOMAIN w |-> IF j \in U THEN UpperChar(w[j]) ELSE w[j]] : U \in SUBSET DOMAIN w}
BoolWords ==
  {<<"t", "r", "u", "e">>, <<"f", "a", "l", "s", "e">>, <<"m", "a", "y", "b", "e">>,
   <<"t", "r", "u">>, <<"t">>, <<"f">>, <<>>, <<" ", "t", "r", "u", "e">>, <<"1">>}
TimeLiterals ==
  {<<"1", "0", ":", "3", "0", ":", "0", "0">>, <<"1", "0", ":", "3", "0">>,
   <<"2", "0", "2", "0", "-", "0", "1", "-", "0", "2">>,
   <<"0", "2", "/", "0", "1", "/", "2", "0", "2", "0">>}
FromStrInputs ==
  {NoneC, BoolC(TRUE), BoolC(FALSE), IntC(0), IntC(1)}
    \cup {StrC(c) : c \in UNION {Casings(w) : w \in BoolWords}}
    \cup {StrC(c) : c \in TimeLiterals}

HourMinute == <<"%", "H", ":", "%", "M">>
DayMonthYear == <<"%", "d", "/", "%", "m", "/", "%", "Y">>
Named(n) == "name" :> n
ScalarMarkups ==
  {Markup("time", a, <<>>) :
     a \in {Named(<<"t">>), Named(<<"t">>) @@ ("time-format" :> HourMinute),
            Named(<<"t">>) @@ ("time-format" :> DefaultTimeFormat), "time-format" :> HourMinute}}
    \cup {Markup("date", a, <<>>) :
            a \in {Named(<<"d">>), Named(<<"d">>) @@ ("date-format" :> DayMonthYear)}}
    \cup {Markup("bool", Named(<<"b">>), <<>>)}
ChildMarkups ==
  {Markup("string", Named(<<"a">>), <<>>), Markup("integer", Named(<<"a">>), <<>>),
   Markup("integer", Named(<<"b">>), <<>>), Markup("string", "description" :> <<"a">>, <<>>)}
ObjectMarkups == {Markup("object", Named(<<"o">>), c) : c \in SeqsUpTo(ChildMarkups, MaxChildren)}

InitNode ==
  /\ dt = NoDataType
  /\ res = NoOutcome
  /\ fa = FormatAttr(NoFormat, NoElement)
  /\ io = NoCalls
  /\ tree = Forest(<<>>, <<>>, "noop")
  /\ heap = Load(<<>>)
  /\ heap0 = heap
  /\ th = [t \in Threads |-> Thread("idle", NoScenario, t)]

NextNode ==
  \/ \E cls \in {"Boolean", "Date", "Time", "Object"} : Construct(cls)
  \/ \E element \in ScalarMarkups \cup ObjectMarkups : CallFromXml(element)
  \/ \E element \in ObjectMarkups : CallSetChildren(element)
  \/ \E s \in FromStrInputs : CallFromStr(s)

SpecNode == InitNode /\ [][NextNode]_vars

Init ==
  \E sc \in Scenarios, leafV \in VLists :
  \E compV \in {<<>>, leafV} :
  \E onfail \in {"noop"} \cup {p \in {"exception"} : sc.root = "cho"} :
    /\ tree = Forest(leafV, compV, onfail)
    /\ heap = Load(<<sc>>)
    /\ heap0 = heap
    /\ th = [t \in Threads |-> IF t = 1 THEN Thread("ready", sc, t) ELSE Thread("idle", NoScenario, t)]
    /\ fa = FormatAttr(NoFormat, NoElement)
    /\ io = NoCalls
    /\ dt = NoDataType
    /\ res = NoOutcome

Next ==
  \E t \in Threads :
    \/ Start(t)
    \/ Step(t)
    \/ Revalidate(t)

Spec == Init /\ [][Next]_vars

(* Two callers validate against the same tree at the same time, each with   *)
(* its own containers.                                                      *)
ConcScenarios ==
  {Scenario("obj", StrV("o"), Ref(1), <<Dict(EmptyMap), Dict("a" :> StrV("hi"))>>),
   Scenario("lst", StrV("l"), Ref(1), <<Dict(EmptyMap), PyList(<<StrV("1"), StrV("2")>>)>>),
   Scenario("nest", StrV("o"), Ref(1),
            <<Dict(EmptyMap), Dict("items" :> Ref(2)), PyList(<<StrV("7"), StrV("2")>>)>>),
   Scenario("lst", StrV("l"), Ref(1), <<Dict(EmptyMap), PyList(<<StrV("2"), StrV("x")>>)>>),
   Scenario("cho", StrV("selector"), StrV("x"),
            <<Dict([k \in {"selector", "x", "y"} |->
                     StrV(CASE k = "selector" -> "x" [] k = "x" -> "42" [] k = "y" -> "7")])>>)}

InitConc ==
  \E sc1 \in ConcScenarios, sc2 \in ConcScenarios :
  \E leafV \in {v \in VLists : Len(v) <= 1}, compV \in {<<>>, <<"store">>} :
    /\ tree = Forest(leafV, compV, "noop")
    /\ heap = Load(<<sc1, sc2>>)
    /\ heap0 = heap
    /\ th = [t \in Threads |-> Thread("ready", IF t = 1 THEN sc1 ELSE sc2, t)]
    /\ fa = FormatAttr(NoFormat, NoElement)
    /\ io = NoCalls
    /\ dt = NoDataType
    /\ res = NoOutcome

NextConc ==
  \E t \in Threads :
    \/ Start(t)
    \/ Step(t)

SpecConc == InitConc /\ [][NextConc]_vars

(* ------------------------------------------------------------- claims *)
Finished(t) == th[t].status \in {"returned", "raised"}
ObjectRoot(t) == tree[th[t].root].cls = "Object" /\ Len(tree[th[t].root].children) > 0

(* C1: after Object.validate returns normally, the object value holds an    *)
(* entry for every declared child, and the entry of a child that was absent *)
(* from the input object is None, whatever validators the child has.        *)
C1_ObjectInsertsAbsentChildren ==
  \A t \in Threads :
    (th[t].status = "returned" /\ th[t].run = 1 /\ ObjectRoot(t)) =>
      LET before == heap0[th[t].value.n].d
          r == GetItem(heap, th[t].ret, th[t].key)
      IN /\ r.exc = ""
         /\ r.v.t = "ref"
         /\ \A k \in ChildKeys(tree, th[t].root) :
              /\ k \in DOMAIN heap[r.v.n].d
              /\ k \notin DOMAIN before => heap[r.v.n].d[k] = None

NumericList(l) == \A j \in DOMAIN l : l[j].t = "str" /\ l[j].s \in NumLit
ItemCalls(t) == SelectSeq(th[t].log, LAMBDA e : e.e = "call" /\ e.n = "lst.item")

(* C2: List.validate on a list of numeric string literals, item type        *)
(* integer: the item node is called once per index, in increasing order,    *)
(* with (i, element i, the list), and on return the list holds at every     *)
(* index the integer coerced from the original element.                     *)
C2_ListCoercesEveryItem ==
  \A t \in Threads :
    (th[t].status = "returned" /\ th[t].run = 1 /\ th[t].root = "lst"
       /\ NumericList(heap0[th[t].value.n].l)) =>
      LET lst == th[t].value
          items == heap0[lst.n].l
          calls == ItemCalls(t)
      IN /\ Len(calls) = Len(items)
         /\ \A j \in 1 .. Len(calls) :
              calls[j].key = IntV(j - 1) /\ calls[j].value = items[j] /\ calls[j].schema = lst
         /\ \A j \in 1 .. Len(items) : heap[lst.n].l[j] = IntV(IntOfLit[items[j].s])

(* The 0-based index of the first element of l that int() rejects, or -1. *)
FirstBad(l) ==
  LET bad == {j \in DOMAIN l : ~(l[j].t = "str" /\ l[j].s \in NumLit)}
  IN IF bad = {} THEN -1 ELSE (CHOOSE j \in bad : \A k \in bad : j <= k) - 1

(* The list a thread's call hands to the list node "lst", if any. *)
InputList(t) ==
  IF th[t].root = "lst" THEN heap0[th[t].value.n].l
  ELSE IF th[t].root = "nest" /\ "items" \in DOMAIN heap0[th[t].value.n].d
       THEN heap0[heap0[th[t].value.n].d["items"].n].l
  ELSE <<>>

NoFailing(t) == \A n \in NodeIds : \A j \in DOMAIN tree[n].validators : tree[n].validators[j] # "fail"

(* C3: when element i of a list cannot be coerced to the item type, the     *)
(* coercion error leaves List.validate and every enclosing validate (the    *)
(* call ends raised, nothing runs after the raise); no validator of the     *)
(* item node was invoked for element i, item validation has returned for    *)
(* every index below i and was never started for an index above i.  A list  *)
(* with such an element, validated by validators that do not fail, always   *)
(* ends this way, at its first such element.                                *)
C3_CoercionErrorPropagates ==
  \A t \in Threads :
    LET log == th[t].log
        items == InputList(t)
    IN /\ \A j \in 1 .. Len(log) :
            (log[j].e = "raise" /\ log[j].x = "ValueError" /\ log[j].n = "lst.item") =>
              LET i == log[j].key.n IN
                /\ i = FirstBad(items) /\ log[j].value = items[i + 1]
                /\ j = Len(log) /\ th[t].stack = <<>>
                /\ th[t].status = "raised" /\ th[t].exc = "ValueError"
                /\ \A k \in 1 .. Len(log) :
                     log[k].n = "lst.item" =>
                       /\ log[k].e = "validator" => log[k].key.n < i
                       /\ log[k].e = "call" => log[k].key.n <= i
                /\ \A b \in 0 .. (i - 1) :
                     \E k \in 1 .. j : log[k].e = "return" /\ log[k].n = "lst.item" /\ log[k].key = IntV(b)
       /\ (th[t].run = 1 /\ Finished(t) /\ FirstBad(items) >= 0 /\ NoFailing(t)) =>
            /\ th[t].status = "raised" /\ th[t].exc = "ValueError"
            /\ log[Len(log)].e = "raise" /\ log[Len(log)].n = "lst.item"
            /\ log[Len(log)].key = IntV(FirstBad(items))

(* C3 witness: inside an object, the second element of a list fails to      *)
(* coerce while the item node has a validator bound.                        *)
C3_Witness ==
  /\ th[1].root = "nest" /\ th[1].status = "raised" /\ th[1].exc = "ValueError"
  /\ tree["lst.item"].validators # <<>>
  /\ th[1].log[Len(th[1].log)].key = IntV(1)

CallOf(log, j) ==
  CHOOSE c \in 1 .. j :
    /\ log[c].e = "call" /\ log[c].d = log[j].d
    /\ \A k \in (c + 1) .. j : ~(log[k].e = "call" /\ log[k].d = log[j].d)
OwnValidatorEvents(log, j) ==
  {k \in CallOf(log, j) .. j : log[k].e = "validator" /\ log[k].n = log[j].n}
Last(S) == CHOOSE k \in S : \A x \in S : x <= k

(* C5: in every variant's validate the node's validators are invoked in     *)
(* directive order, each receiving the container the previous one returned; *)
(* validate returns the container the last validator returned; and a        *)
(* container returned by a child's validate is never discarded: when it is  *)
(* not the container the child was given, the caller's next statement       *)
(* passes it on, writes it, writes to it or returns it.                     *)
C5_ContainersThreaded ==
  \A t \in Threads :
    LET log == th[t].log IN
    \A j \in 1 .. Len(log) :
      /\ log[j].e = "validator" =>
           /\ log[j].x = Validators(tree, log[j].n)[log[j].i + 1]
           /\ IF log[j].i = 0
              THEN log[j - 1].e = "call" /\ log[j - 1].schema = log[j].schema
              ELSE log[j - 1].e = "validator" /\ log[j - 1].ret = log[j].schema
      /\ log[j].e = "return" =>
           LET own == OwnValidatorEvents(log, j) IN
             /\ Cardinality(own) = Len(Validators(tree, log[j].n))
             /\ own # {} => log[j].ret = log[Last(own)].ret
      /\ (log[j].e = "return" /\ log[j].d > 1 /\ j < Len(log)) =>
           LET r == log[j].ret
               nxt == log[j + 1]
           IN \/ r = log[CallOf(log, j)].schema
              \/ nxt.e = "raise"
              \/ nxt.e = "call" /\ nxt.schema = r
              \/ nxt.e = "write" /\ r \in {nxt.schema, nxt.value}
              \/ nxt.e = "return" /\ nxt.ret = r

Owned(v, t) == v.t = "ref" => v.n \in Region(t)
RegionOf(h, t) == Restrict(h, DOMAIN h \cap Region(t))

(* The call of thread t with no other call running: from the containers as  *)
(* they were loaded, to its end.                                            *)
Solo(t) ==
  LET fresh == [th[t] EXCEPT !.status = "ready", !.stack = <<>>, !.log = <<>>,
                             !.ret = None, !.exc = ""]
  IN RunAlone(StartMachine([t |-> t, th |-> fresh, heap |-> heap0, tree |-> tree],
                           fresh.value, fresh.schema))

C8_Isolated ==
  \A t \in Threads :
    /\ \A j \in DOMAIN th[t].stack :
         LET f == th[t].stack[j] IN Owned(f.value, t) /\ Owned(f.schema, t) /\ Owned(f.loc, t)
    /\ \A j \in DOMAIN th[t].log :
         LET e == th[t].log[j] IN Owned(e.value, t) /\ Owned(e.schema, t) /\ Owned(e.ret, t)
    /\ \A a \in DOMAIN heap \cap Region(t) :
         /\ \A k \in DOMAIN heap[a].d : Owned(heap[a].d[k], t)
         /\ \A k \in DOMAIN heap[a].l : Owned(heap[a].l[k], t)
    /\ Finished(t) =>
         LET solo == Solo(t)
         IN /\ RegionOf(heap, t) = RegionOf(solo.heap, t)
            /\ th[t].status = solo.th.status
            /\ th[t].ret = solo.th.ret
            /\ th[t].exc = solo.th.exc

C8_OwnWrites ==
  /\ tree' = tree
  /\ \A a \in DOMAIN heap' :
       (a \notin DOMAIN heap \/ heap'[a] # heap[a]) =>
         \E t \in Threads : a \in Region(t) /\ th'[t] # th[t]
  /\ DOMAIN heap \subseteq DOMAIN heap'

(* C8: two validate calls on the same tree with disjoint containers, in any *)
(* interleaving: every container a call holds, reads, writes or returns is  *)
(* its own, no step changes the schema tree or a container of the call that *)
(* is not stepping, and a finished call's containers, result and error are  *)
(* those of the same call run alone.                                        *)
C8_ConcurrentCallsIsolated == [](C8_Isolated) /\ [][C8_OwnWrites]_vars

(* C8 witness: the second call has returned, having changed its container,  *)
(* while the first, on the same list nodes, is inside an item's validate    *)
(* with its own container already changed.                                  *)
C8_Witness ==
  /\ th[1].root = "lst" /\ th[2].root = "nest"
  /\ th[2].status = "returned" /\ RegionOf(heap, 2) # RegionOf(heap0, 2)
  /\ th[1].status = "running" /\ Head(th[1].stack).n = "lst.item" /\ Head(th[1].stack).i > 0
  /\ RegionOf(heap, 1) # RegionOf(heap0, 1)

NoRewrite == \A n \in NodeIds : \A j \in DOMAIN tree[n].validators : tree[n].validators[j] = "noop"

(* C9: when no validator rewrites the container, validating the container   *)
(* returned by a first successful validate once more, with the same key,    *)
(* changes nothing and succeeds again.                                      *)
C9_RevalidationIsFixedPoint ==
  \A t \in Threads :
    (th[t].run = 2 /\ NoRewrite) => (heap = th[t].snap /\ th[t].status # "raised")

(* C9 witness: an object whose first validation changed the container has   *)
(* been validated a second time, with validators bound.                     *)
C9_Witness ==
  /\ th[1].run = 2 /\ th[1].status = "returned" /\ NoRewrite
  /\ th[1].root = "nest" /\ Len(InputList(1)) = MaxLen
  /\ tree["lst.item"].validators # <<>>
  /\ heap # heap0

(* --------------------------------------------------- FormatAttr claims *)
GetStep == io'.calls = io.calls + 1
ReadStep == io'.calls = io.calls /\ io'.last.op = "read"
Names(l) == [j \in DOMAIN l |-> l[j].name]
Unidentified(l) == [j \in DOMAIN l |-> [l[j] EXCEPT !.id = 0]]
ItemNames(f) == Names(Parse(f).items)
Applicable(f, name) == name \in TypesToValidators[f.element.tag]

C7_LenientAndStrictBinding ==
  [][(GetStep /\ fa.element.some /\ Parse(fa).exc = "") =>
       LET names == ItemNames(fa)
           out == io'.last
           good == SelectSeq(names, LAMBDA n : Applicable(fa, n))
           bad == SelectSeq(names, LAMBDA n : ~Applicable(fa, n))
       IN IF out.strict /\ bad # <<>>
          THEN out.exc = "ValueError" /\ out.at = bad[1] /\ fa' = fa
          ELSE /\ out.exc = ""
               /\ fa'.cached
               /\ Names(fa'.validators) = good
               /\ out.v = fa'.validators
               /\ \A j, k \in DOMAIN fa'.validators :
                    j # k => fa'.validators[j].id # fa'.validators[k].id
               /\ fa'.unregistered = bad]_vars

(* C7 witness: a strict call has failed at a name that does not apply,     *)
(* after a lenient call on the same directive stored a validator and       *)
(* that name.                                                               *)
C7_Witness ==
  /\ io.calls = 2 /\ io.last.op = "get" /\ io.last.strict /\ io.last.exc = "ValueError"
  /\ fa.cached /\ Len(fa.validators) >= 1 /\ fa.unregistered = <<io.last.at>>
  /\ io.last.at # <<>>

Opens(s, i, j) == Cardinality({r \in i .. j : s[r] = "{"})
Closes(s, i, j) == Cardinality({r \in i .. j : s[r] = "}"})
Balanced(s, i, j) ==
  /\ Opens(s, i, j) = Closes(s, i, j)
  /\ \A k \in i .. j : Opens(s, i, k) >= Closes(s, i, k)
(* s[i] is an opening brace and s[j] the closing brace that matches it. *)
Span(s, i, j) == i < j /\ s[i] = "{" /\ s[j] = "}" /\ Balanced(s, i + 1, j - 1)
InsideSpan(s, p) == \E i \in 1 .. (p - 1), j \in (p + 1) .. Len(s) : Span(s, i, j)

(* C10: the tokens of a directive are its pieces between the ';' that lie  *)
(* outside every brace-delimited span, nested spans included, without the   *)
(* empty pieces; an absent directive has no tokens.                         *)
C10_TokensSplitOutsideBraces ==
  IF fa.format.some
  THEN LET s == fa.format.s
       IN Tokens(fa) = NonEmpty(ReSplit(s, 1, {p \in DOMAIN s : s[p] = ";" /\ ~InsideSpan(s, p)}))
  ELSE Tokens(fa) = <<>>

(* C15: whenever Object.validate returns normally, the returned container  *)
(* has under key the object value (the object passed in, or the corrected   *)
(* object the children returned), for every number of declared children,    *)
(* zero included.                                                           *)
C15_ObjectWritesContainerKey ==
  \A t \in Threads :
    (th[t].status = "returned" /\ th[t].run = 1 /\ tree[th[t].root].cls = "Object") =>
      LET r == GetItem(heap, th[t].ret, th[t].key)
      IN /\ r.exc = ""
         /\ r.v.t = "ref"
         /\ r.v.n \in DOMAIN heap
         /\ heap[r.v.n].kind = "dict"
         /\ Len(tree[th[t].root].children) = 0 => r.v = th[t].value

(* ------------------------------------------------------- node claims *)
IsCasingOf(c, w) == Len(c) = Len(w) /\ \A j \in DOMAIN w : c[j] \in {w[j], UpperChar(w[j])}
TrueWord == <<"t", "r", "u", "e">>
FalseWord == <<"f", "a", "l", "s", "e">>

(* C12: Boolean.from_str maps every casing of "true" to True and every     *)
(* casing of "false" to False, returns a bool as it is, raises ValueError   *)
(* for every other str, and gives a bool for no other input.                *)
C12_BooleanCoercion ==
  (res.op = "from_str" /\ dt.cls = "Boolean") =>
    LET s == res.arg IN
    /\ (s.t = "str" /\ IsCasingOf(s.c, TrueWord)) => (res.exc = "" /\ res.v = BoolC(TRUE))
    /\ (s.t = "str" /\ IsCasingOf(s.c, FalseWord)) => (res.exc = "" /\ res.v = BoolC(FALSE))
    /\ s.t = "bool" => (res.exc = "" /\ res.v = s)
    /\ (s.t = "str" /\ ~IsCasingOf(s.c, TrueWord) /\ ~IsCasingOf(s.c, FalseWord)) =>
         res.exc = "ValueError"
    /\ (res.exc = "" /\ res.v.t = "bool") =>
         \/ s.t = "bool"
         \/ s.t = "str" /\ (IsCasingOf(s.c, TrueWord) \/ IsCasingOf(s.c, FalseWord))

(* C12 witness: a mixed-case spelling of "false" has been coerced. *)
C12_Witness ==
  /\ res.op = "from_str" /\ dt.cls = "Boolean"
  /\ res.arg.t = "str" /\ IsCasingOf(res.arg.c, FalseWord)
  /\ res.arg.c[1] = "f" /\ res.arg.c[2] = "A"
  /\ res.v = BoolC(FALSE)

(* The exceptions the module raises for malformed markup: ValueError       *)
(* (scalar or list children), KeyError (no name), AssertionError (choice,   *)
(* case).                                                                   *)
SchemaErrors == {"ValueError", "KeyError", "AssertionError"}
DuplicateNames(element) ==
  \E j, k \in DOMAIN element.children :
    /\ j # k
    /\ "name" \in DOMAIN element.children[j].attrib
    /\ "name" \in DOMAIN element.children[k].attrib
    /\ element.children[j].attrib["name"] = element.children[k].attrib["name"]

(* C13: building an Object node from an element two of whose children have *)
(* the same name fails with a schema error and yields no node, and no       *)
(* Object ends up holding one of the two children.                          *)
C13_DuplicateChildNamesRejected ==
  (res.op \in {"from_xml", "set_children"} /\ res.arg.tag = "object" /\ DuplicateNames(res.arg)) =>
    /\ res.exc \in SchemaErrors
    /\ dt.children = <<>>

(* C14: a Time built from an element uses the element's time-format as the *)
(* pattern of from_str, a Date its date-format, and each its default        *)
(* pattern when the element has no such attribute.                          *)
C14_FormatAttributeUsed ==
  (res.op = "from_xml" /\ res.arg.tag \in {"time", "date"} /\ "name" \in DOMAIN res.arg.attrib) =>
    /\ res.exc = ""
    /\ res.arg.tag = "time" =>
         /\ dt.cls = "Time"
         /\ dt.time_format = IF "time-format" \in DOMAIN res.arg.attrib
                             THEN res.arg.attrib["time-format"] ELSE DefaultTimeFormat
    /\ res.arg.tag = "date" =>
         /\ dt.cls = "Date"
         /\ dt.date_format = IF "date-format" \in DOMAIN res.arg.attrib
                             THEN res.arg.attrib["date-format"] ELSE DefaultDateFormat

(* ------------------------------------------------------ to_prompt claims *)
(* The directive read token by token: the names in the order of their      *)
(* first occurrence, each with the arguments of its last occurrence.        *)
Entries(f) == [j \in DOMAIN Tokens(f) |-> ParseToken(Tokens(f)[j])]
RECURSIVE Ascending(_)
Ascending(S) ==
  IF S = {} THEN <<>>
  ELSE LET m == CHOOSE x \in S : \A y \in S : x <= y IN <<m>> \o Ascending(S \ {m})
DirectiveOrder(f) ==
  LET e == Entries(f)
      firsts == Ascending({j \in DOMAIN e : \A k \in 1 .. (j - 1) : e[k].name # e[j].name})
  IN [i \in DOMAIN firsts |->
        LET name == e[firsts[i]].name
            last == CHOOSE j \in DOMAIN e :
                      e[j].name = name /\ \A k \in DOMAIN e : e[k].name = name => k <= j
        IN [name |-> name, args |-> e[last].args]]
BoundRenderings(f) ==
  LET bound == SelectSeq(DirectiveOrder(f), LAMBDA x : Applicable(f, x.name))
  IN [j \in DOMAIN bound |-> ValidatorToPrompt(bound[j], TRUE)]
UnregisteredNames(f) == Names(SelectSeq(DirectiveOrder(f), LAMBDA x : ~Applicable(f, x.name)))
PromptStep == io' = io /\ fa' = fa /\ res' # res /\ res'.op = "to_prompt"

====
